---- MODULE Spec2Model ----
(***************************************************************************)
(* Model of build_chromium's provisioning script bootstrap.py: the         *)
(* platform resolvers, the blob fetcher's argument construction, and the   *)
(* orchestrator main() as a program-counter machine over the filesystem    *)
(* facts it reads and the external tools it invokes.                       *)
(*                                                                         *)
(* Text that the code inspects character by character (sys.platform,       *)
(* platform.machine(), the tarball URL) is a sequence of one-character     *)
(* strings; text that the code only passes along is an atomic string.      *)
(***************************************************************************)
EXTENDS Integers, Sequences, FiniteSets, TLC

VARIABLES
    sys_platform,   \* sys.platform of the running interpreter
    machine,        \* platform.machine() of the running interpreter
    argv,           \* command line: revision, tarball_url, target_cpu, target_os
    dirs,           \* names of the directories that exist in the start directory
    marker,         \* src/third_party/node/linux/node-linux-x64.tar.gz.sha1 exists
    esbuild,        \* src/third_party/devtools-frontend/src/third_party/esbuild is a dir
    installed,      \* artifacts the external tools have put on disk so far
    pc,             \* position of main()
    run,            \* number of the current invocation against this destination
    steps,          \* the operations this invocation has started, in order
    environ,        \* os.environ of this invocation
    cwd,            \* working directory of this invocation
    exit_status,    \* -1 while running, then the process exit status
    error,          \* what ended the invocation early, "" if nothing did
    args,           \* parsed arguments (target_cpu, target_os with defaults)
    tarball_url,    \* basename source of the archive to fetch
    host_os,        \* main()'s local host_os
    host_cpu,       \* main()'s local host_cpu
    start,          \* filesystem facts when this invocation started
    prev,           \* steps and start facts of the previous invocation
    touched,        \* the source tree was edited between invocations
    u_in,           \* inputs of a direct call of a helper
    u_out           \* what that call returned / handed to the external client

vars == << sys_platform, machine, argv, dirs, marker, esbuild, installed, pc,
           run, steps, environ, cwd, exit_status, error, args, tarball_url,
           host_os, host_cpu, start, prev, touched, u_in, u_out >>

mainVars == << sys_platform, machine, argv, dirs, marker, esbuild, installed,
               pc, run, steps, environ, cwd, exit_status, error, args,
               tarball_url, host_os, host_cpu, start, prev, touched >>

unitVars == << u_in, u_out >>

-----------------------------------------------------------------------------
(* Bounds *)

\* Invocations of bootstrap.py against the same destination.
MaxRuns == 2

-----------------------------------------------------------------------------
(* Text helpers *)

None == "None"

StartsWith(s, p) == Len(s) >= Len(p) /\ SubSeq(s, 1, Len(p)) = p

\* str.lower() on the letters that occur in the machine names below.
LowerChar(c) ==
    CASE c = "A" -> "a"
      [] c = "M" -> "m"
      [] c = "D" -> "d"
      [] c = "R" -> "r"
      [] OTHER -> c

Lower(s) == [i \in 1..Len(s) |-> LowerChar(s[i])]

\* os.path.basename: what follows the last "/".
Basename(s) ==
    LET slashes == {i \in 1..Len(s) : s[i] = "/"}
        last == IF slashes = {} THEN 0
                ELSE CHOOSE i \in slashes : \A j \in slashes : j <= i
    IN  SubSeq(s, last + 1, Len(s))

\* Python truthiness of an optional string argument.
Truthy(x) == x # None /\ x # ""

-----------------------------------------------------------------------------
(* Platform Resolver *)

S_linux  == << "l", "i", "n", "u", "x" >>
S_win    == << "w", "i", "n" >>
S_darwin == << "d", "a", "r", "w", "i", "n" >>

\* current_os with a final branch that defaults instead of raising.
current_os_default(platform) ==
    IF StartsWith(platform, S_linux) THEN "linux"
    ELSE IF StartsWith(platform, S_win) THEN "win"
    ELSE IF platform = S_darwin THEN "mac"
    ELSE "linux"

current_os(platform) ==
    IF StartsWith(platform, S_linux) THEN "linux"
    ELSE IF StartsWith(platform, S_win) THEN "win"
    ELSE IF platform = S_darwin THEN "mac"
    ELSE "ValueError"

S_amd64  == << "a", "m", "d", "6", "4" >>
S_x86_64 == << "x", "8", "6", "_", "6", "4" >>
S_x64    == << "x", "6", "4" >>
S_arm64  == << "a", "r", "m", "6", "4" >>
S_arm    == << "a", "r", "m" >>

current_cpu(mach) ==
    LET arch == Lower(mach)
    IN  IF arch = S_amd64 \/ arch = S_x86_64 \/ arch = S_x64 THEN "x64"
        ELSE IF arch = S_arm64 THEN "arm64"
        ELSE IF StartsWith(arch, S_arm) THEN "arm"
        ELSE "ValueError"

-----------------------------------------------------------------------------
(* Environment Materializer *)

EmptyEnv ==
    [ DEPOT_TOOLS_UPDATE |-> "",
      CHROMIUM_BUILDTOOLS_PATH |-> "",
      PATH |-> << "/usr/bin" >>,
      DEPOT_TOOLS_WIN_TOOLCHAIN |-> "",
      DEPOT_TOOLS_WIN_TOOLCHAIN_BASE_URL |-> "",
      GYP_MSVS_HASH_27370823e7 |-> "",
      GYP_MSVS_HASH_7393122652 |-> "" ]

add_depot_tools_to_path(env) ==
    [ DEPOT_TOOLS_UPDATE |-> "0",
      CHROMIUM_BUILDTOOLS_PATH |-> "src/buildtools",
      PATH |-> << "src/third_party/ninja", "vendor/depot_tools" >> \o env.PATH,
      DEPOT_TOOLS_WIN_TOOLCHAIN |-> "1",
      DEPOT_TOOLS_WIN_TOOLCHAIN_BASE_URL |->
          "https://dev-cdn.electronjs.org/windows-toolchains/_",
      GYP_MSVS_HASH_27370823e7 |-> "28622d16b1",
      GYP_MSVS_HASH_7393122652 |-> "3ba76c5c20" ]

-----------------------------------------------------------------------------
(* Blob Fetcher: the command line handed to download_from_google_storage.py *)

download_from_google_storage(bucket, sha_file, sha1, extract, output) ==
    << "--no_resume", "--no_auth", "--bucket", bucket >>
    \o (IF Truthy(sha1) THEN << sha1 >> ELSE << >>)
    \o (IF Truthy(sha_file) THEN << "-s", sha_file >> ELSE << >>)
    \o (IF extract THEN << "--extract" >> ELSE << >>)
    \o (IF Truthy(output) THEN << "-o", output >> ELSE << >>)

\* subprocess.check_call raises CalledProcessError on a non-zero return code.
check_call_raises(rc) == rc # 0

\* cipd() without its return-code check.
cipd_raises_never(rc) == FALSE

\* cipd() raises ValueError('cipd failed.') on a non-zero return code.
cipd_raises(rc) == rc # 0

\* read_var_from_deps() raises ValueError on a non-zero return code.
read_var_from_deps_raises(rc) == rc # 0

cipd_bin(platform) == IF current_os(platform) = "win" THEN "cipd.bat" ELSE "cipd"

-----------------------------------------------------------------------------
(* Source tarball naming *)

\* CHROMIUM_URL, its host and path shortened to one segment each.
S_CHROMIUM_URL == << "h", ":", "/", "/", "g", "/", "d" >>
S_chromium_    == << "c", "h", "r", "o", "m", "i", "u", "m", "-" >>
S_tar_xz       == << ".", "t", "a", "r", ".", "x", "z" >>

\* Characters main() cuts from the end of the tarball's basename.
SuffixLen == 7

\* args.src_dir, as a directory name in the start directory.
src_dir == << "s", "r", "c" >>

\* main(): the URL built from --revision, else --tarball-url.
TarballUrl(a) ==
    IF a.revision # << >>
    THEN S_CHROMIUM_URL \o << "/" >> \o a.revision \o << "/" >>
         \o S_chromium_ \o a.revision \o S_tar_xz
    ELSE a.tarball_url

\* tarball_dir without the slice.
tarball_dir_nostrip(url) == Basename(url)

\* main(): os.path.basename(tarball_url)[:-7]
tarball_dir(url) ==
    LET base == Basename(url)
    IN  SubSeq(base, 1, Len(base) - SuffixLen)

\* os.path.isdir of a name in the start directory; isdir('') is False.
isdir(name) == name # << >> /\ name \in dirs

\* The download made unconditional.
SourceMissing_always == TRUE

\* main(): the source tree has to be downloaded.
SourceMissing == ~ isdir(src_dir)

-----------------------------------------------------------------------------
(* Name resolution inside download_nodejs *)

\* Names bound in download_nodejs: its parameter and its one local.
download_nodejs_locals == { "host_os", "node_version" }

\* Names bound at module level of bootstrap.py.
module_globals ==
    { "ROOT_DIR", "CHROMIUM_URL", "add_depot_tools_to_path", "current_os",
      "current_cpu", "download_and_extract", "cipd", "read_var_from_deps",
      "search_pattern", "download_from_google_storage", "download_gcs_dep",
      "download_nodejs", "main", "os", "sys", "re", "ast", "platform",
      "subprocess", "tarfile", "urllib", "argparse" }

NameResolves(name) == name \in download_nodejs_locals \cup module_globals

-----------------------------------------------------------------------------
(* main(): the order of its operations and the conditions that gate them *)

\* main() with the overlay applied only after the compilers are updated.
Program_overlay_late ==
    << "parse", "check_args", "src_check", "archive", "rename",
       "resolve_host", "win_tools", "vs_toolchain", "clang", "rust", "overlay",
       "node_search", "node_linux_sha", "node_mac_sha", "node_win_sha",
       "gcs_linux_pin", "gcs_linux_eval", "gcs_linux_blob",
       "gcs_mac_pin", "gcs_mac_eval", "gcs_mac_blob",
       "gcs_mac_arm64_pin", "gcs_mac_arm64_eval", "gcs_mac_arm64_blob",
       "gcs_win_pin", "gcs_win_eval", "gcs_win_blob",
       "pin_esbuild", "cipd_esbuild", "pin_ninja", "cipd_ninja",
       "pin_reclient", "cipd_reclient", "pin_gn", "cipd_gn",
       "dsymutil", "rc", "sysroot_host", "sysroot_target", "done" >>

Program ==
    << "parse", "check_args", "src_check", "archive", "rename",
       "resolve_host", "win_tools", "overlay", "vs_toolchain", "clang", "rust",
       "node_search", "node_linux_sha", "node_mac_sha", "node_win_sha",
       "gcs_linux_pin", "gcs_linux_eval", "gcs_linux_blob",
       "gcs_mac_pin", "gcs_mac_eval", "gcs_mac_blob",
       "gcs_mac_arm64_pin", "gcs_mac_arm64_eval", "gcs_mac_arm64_blob",
       "gcs_win_pin", "gcs_win_eval", "gcs_win_blob",
       "pin_esbuild", "cipd_esbuild", "pin_ninja", "cipd_ninja",
       "pin_reclient", "cipd_reclient", "pin_gn", "cipd_gn",
       "dsymutil", "rc", "sysroot_host", "sysroot_target", "done" >>

\* download_nodejs: os.path.exists('third_party/node/linux/node-linux-x64.tar.gz.sha1')
HasNodeMarker == marker

\* The esbuild install skipped once the package is on disk.
HasEsbuildDir_once == esbuild /\ "cipd_esbuild" \notin installed

\* main(): os.path.isdir('third_party/devtools-frontend/src/third_party/esbuild')
HasEsbuildDir == esbuild

\* main(): the three places that fetch rc, one per host OS.
NeedRc ==
    \/ host_os = "linux" /\ args.target_os = "win"
    \/ host_os = "mac" /\ args.target_os = "win"
    \/ host_os = "win"

NeedDsymutil == host_os = "mac"

\* The host sysroot install skipped once it is on disk.
NeedHostSysroot_once == host_os = "linux" /\ "sysroot_host" \notin installed

NeedHostSysroot == host_os = "linux"

\* The target sysroot installed whatever the target CPU.
NeedTargetSysroot_always == host_os = "linux"

NeedTargetSysroot == host_os = "linux" /\ host_cpu # args.target_cpu

Guard(l) ==
    CASE l \in {"src_check", "archive", "rename"} -> SourceMissing
      [] l \in {"win_tools", "vs_toolchain"} -> host_os = "win"
      [] l \in {"node_search", "node_linux_sha"} -> HasNodeMarker
      [] l = "node_mac_sha" -> HasNodeMarker /\ host_os = "mac"
      [] l = "node_win_sha" -> HasNodeMarker /\ host_os = "win"
      [] l \in {"gcs_linux_pin", "gcs_linux_eval", "gcs_linux_blob"} ->
            ~ HasNodeMarker
      [] l \in {"gcs_mac_pin", "gcs_mac_eval", "gcs_mac_blob",
                "gcs_mac_arm64_pin", "gcs_mac_arm64_eval", "gcs_mac_arm64_blob"} ->
            ~ HasNodeMarker /\ host_os = "mac"
      [] l \in {"gcs_win_pin", "gcs_win_eval", "gcs_win_blob"} ->
            ~ HasNodeMarker /\ host_os = "win"
      [] l \in {"pin_esbuild", "cipd_esbuild"} -> HasEsbuildDir
      [] l = "dsymutil" -> NeedDsymutil
      [] l = "rc" -> NeedRc
      [] l = "sysroot_host" -> NeedHostSysroot
      [] l = "sysroot_target" -> NeedTargetSysroot
      [] OTHER -> TRUE

Position(l) == CHOOSE i \in 1..Len(Program) : Program[i] = l

\* The next operation main() reaches after l.
Follow(l) ==
    LET later == {i \in (Position(l) + 1)..Len(Program) : Guard(Program[i])}
    IN  Program[CHOOSE i \in later : \A j \in later : i <= j]

CheckCallLabels ==
    {"win_tools", "vs_toolchain", "clang", "rust", "sysroot_host", "sysroot_target"}

CheckCallCmd(l) ==
    CASE l = "win_tools" -> << "vendor/depot_tools/bootstrap/win_tools.bat" >>
      [] l = "vs_toolchain" -> << "build/vs_toolchain.py", "update", "--force" >>
      [] l = "clang" -> << "tools/clang/scripts/update.py" >>
      [] l = "rust" -> << "tools/rust/update_rust.py" >>
      [] l = "sysroot_host" ->
            << "build/linux/sysroot_scripts/install-sysroot.py", "--arch", host_cpu >>
      [] l = "sysroot_target" ->
            << "build/linux/sysroot_scripts/install-sysroot.py", "--arch",
               args.target_cpu >>

BlobLabels ==
    {"node_linux_sha", "node_mac_sha", "node_win_sha", "gcs_linux_blob",
     "gcs_mac_blob", "gcs_mac_arm64_blob", "gcs_win_blob", "dsymutil", "rc"}

NodeMacSha(cpu) ==
    CASE cpu = "x64" -> "third_party/node/mac/node-darwin-x64.tar.gz.sha1"
      [] cpu = "arm64" -> "third_party/node/mac/node-darwin-arm64.tar.gz.sha1"
      [] OTHER -> "third_party/node/mac/node-darwin-arm.tar.gz.sha1"

DsymutilSha(cpu) ==
    CASE cpu = "x64" -> "tools/clang/dsymutil/bin/dsymutil.x64.sha1"
      [] cpu = "arm64" -> "tools/clang/dsymutil/bin/dsymutil.arm64.sha1"
      [] OTHER -> "tools/clang/dsymutil/bin/dsymutil.arm.sha1"

RcSha(os) ==
    CASE os = "linux" -> "build/toolchain/win/rc/linux64/rc.sha1"
      [] os = "mac" -> "build/toolchain/win/rc/mac/rc.sha1"
      [] OTHER -> "build/toolchain/win/rc/win/rc.exe.sha1"

GcsDep(name) ==
    [ bucket |-> "chromium-nodejs", sha_file |-> None, sha1 |-> "object_name",
      extract |-> TRUE, output |-> name ]

\* The keyword arguments of each call of download_from_google_storage.
BlobCall(l) ==
    CASE l = "node_linux_sha" ->
            [ bucket |-> "chromium-nodejs/node_version",
              sha_file |-> "third_party/node/linux/node-linux-x64.tar.gz.sha1",
              sha1 |-> None, extract |-> TRUE, output |-> None ]
      [] l = "node_mac_sha" ->
            [ bucket |-> "chromium-nodejs/node_version",
              sha_file |-> NodeMacSha(host_cpu),
              sha1 |-> None, extract |-> TRUE, output |-> None ]
      [] l = "node_win_sha" ->
            [ bucket |-> "chromium-nodejs/node_version",
              sha_file |-> "third_party/node/win/node.exe.sha1",
              sha1 |-> None, extract |-> FALSE, output |-> None ]
      [] l = "gcs_linux_blob" -> GcsDep("third_party/node/linux/output_file")
      [] l = "gcs_mac_blob" -> GcsDep("third_party/node/mac/output_file")
      [] l = "gcs_mac_arm64_blob" -> GcsDep("third_party/node/mac_arm64/output_file")
      [] l = "gcs_win_blob" -> GcsDep("third_party/node/win/output_file")
      [] l = "dsymutil" ->
            [ bucket |-> "chromium-browser-clang",
              sha_file |-> DsymutilSha(host_cpu),
              sha1 |-> None, extract |-> FALSE,
              output |-> "tools/clang/dsymutil/bin/dsymutil" ]
      [] l = "rc" ->
            [ bucket |-> "chromium-browser-clang/rc",
              sha_file |-> RcSha(host_os),
              sha1 |-> None, extract |-> FALSE, output |-> None ]

PinLabels ==
    {"gcs_linux_pin", "gcs_mac_pin", "gcs_mac_arm64_pin", "gcs_win_pin",
     "pin_esbuild", "pin_ninja", "pin_reclient", "pin_gn"}

\* The variable and the manifest of each call of read_var_from_deps.
PinCall(l) ==
    CASE l = "gcs_linux_pin" -> << "src/third_party/node/linux", "DEPS" >>
      [] l = "gcs_mac_pin" -> << "src/third_party/node/mac", "DEPS" >>
      [] l = "gcs_mac_arm64_pin" -> << "src/third_party/node/mac_arm64", "DEPS" >>
      [] l = "gcs_win_pin" -> << "src/third_party/node/win", "DEPS" >>
      [] l = "pin_esbuild" ->
            << "third_party/esbuild:infra/3pp/tools/esbuild/${platform}",
               "third_party/devtools-frontend/src/DEPS" >>
      [] l = "pin_ninja" ->
            << "src/third_party/ninja:infra/3pp/tools/ninja/${platform}", "DEPS" >>
      [] l = "pin_reclient" ->
            << "src/buildtools/reclient:infra/rbe/client/${platform}", "DEPS" >>
      [] l = "pin_gn" -> << "src/buildtools/mac:gn/gn/mac-${arch}", "DEPS" >>

EvalLabels ==
    {"gcs_linux_eval", "gcs_mac_eval", "gcs_mac_arm64_eval", "gcs_win_eval"}

CipdLabels == {"cipd_esbuild", "cipd_ninja", "cipd_reclient", "cipd_gn"}

\* The root and the package of each call of cipd.
CipdCall(l) ==
    CASE l = "cipd_esbuild" ->
            << "third_party/devtools-frontend/src/third_party/esbuild",
               "infra/3pp/tools/esbuild/${platform}" >>
      [] l = "cipd_ninja" -> << "third_party/ninja", "infra/3pp/tools/ninja/${platform}" >>
      [] l = "cipd_reclient" -> << "buildtools/reclient", "infra/rbe/client/${platform}" >>
      [] l = "cipd_gn" ->
            IF host_os = "linux" THEN << "buildtools/linux64", "gn/gn/linux-${arch}" >>
            ELSE IF host_os = "mac" THEN << "buildtools/mac", "gn/gn/mac-${arch}" >>
            ELSE << "buildtools/win", "gn/gn/windows-amd64" >>

-----------------------------------------------------------------------------
(* Inputs *)

S_win32  == << "w", "i", "n", "3", "2" >>
S_cygwin == << "c", "y", "g", "w", "i", "n" >>

HostPlatforms == { S_linux, S_win32, S_darwin, S_cygwin }

S_AMD64  == << "A", "M", "D", "6", "4" >>
S_mips   == << "m", "i", "p", "s" >>

HostMachines == { S_AMD64, S_arm64, S_mips }

S_rev == << "9" >>

\* --tarball-url https://g/t.tar.xz, shortened as CHROMIUM_URL is.
S_url == << "h", ":", "/", "/", "g", "/", "t" >> \o S_tar_xz

\* A top-level directory name no tarball name implies.
S_other == << "o" >>

Argvs ==
    [ revision : { << >>, S_rev },
      tarball_url : { << >>, S_url },
      target_cpu : { None, "arm" },
      target_os : { None, "win" } ]

DirNames == { src_dir, S_chromium_ \o S_rev, << "t" >> }

-----------------------------------------------------------------------------
(* One invocation of bootstrap.py *)

Record(op, ok, cmd) ==
    steps' = Append(steps, [ op |-> op, what |-> pc, env |-> environ,
                             ok |-> ok, cmd |-> cmd ])

\* An uncaught exception, or main() returning 1: the process exits with status 1.
Raise(err) == pc' = "done" /\ exit_status' = 1 /\ error' = err

Goto(l) ==
    /\ pc' = l
    /\ exit_status' = IF l = "done" THEN 0 ELSE -1
    /\ error' = error

\* argparse evaluates the defaults current_cpu() and current_os() first.
ParseArgs ==
    /\ pc = "parse"
    /\ LET cpu == current_cpu(machine)
           os == current_os(sys_platform)
       IN  IF cpu = "ValueError"
           THEN Raise("UnrecognizedArchitecture") /\ args' = args
           ELSE IF os = "ValueError"
           THEN Raise("UnsupportedPlatform") /\ args' = args
           ELSE /\ args' = [ target_cpu |-> IF argv.target_cpu = None
                                            THEN cpu ELSE argv.target_cpu,
                             target_os |-> IF argv.target_os = None
                                           THEN os ELSE argv.target_os ]
                /\ Goto("check_args")
    /\ UNCHANGED << sys_platform, machine, argv, dirs, marker, esbuild, installed,
                    run, steps, environ, cwd, tarball_url, host_os, host_cpu,
                    start, prev, touched, unitVars >>

CheckArgs ==
    /\ pc = "check_args"
    /\ IF argv.revision = << >> /\ argv.tarball_url = << >>
       THEN Raise("MissingArguments") /\ tarball_url' = tarball_url
       ELSE tarball_url' = TarballUrl(argv) /\ Goto(Follow(pc))
    /\ UNCHANGED << sys_platform, machine, argv, dirs, marker, esbuild, installed,
                    run, steps, environ, cwd, args, host_os, host_cpu,
                    start, prev, touched, unitVars >>

DestinationCheck ==
    /\ pc = "src_check"
    /\ IF isdir(tarball_dir(tarball_url))
       THEN Raise("DestinationConflict")
       ELSE Goto(Follow(pc))
    /\ UNCHANGED << sys_platform, machine, argv, dirs, marker, esbuild, installed,
                    run, steps, environ, cwd, args, tarball_url, host_os,
                    host_cpu, start, prev, touched, unitVars >>

\* The archive's own top-level directory and the tree in it are the server's.
DownloadAndExtract ==
    /\ pc = "archive"
    /\ \E ok \in BOOLEAN, top \in { tarball_dir(tarball_url), S_other },
          m \in BOOLEAN, e \in BOOLEAN :
          /\ Record("archive", ok, << "download_and_extract" >>)
          /\ IF ok
             THEN /\ dirs' = dirs \cup { top }
                  /\ marker' = m
                  /\ esbuild' = e
                  /\ Goto(Follow(pc))
             ELSE /\ dirs' \in { dirs, dirs \cup { top } }
                  /\ UNCHANGED << marker, esbuild >>
                  /\ Raise("ArchiveExtractionFailed")
    /\ UNCHANGED << sys_platform, machine, argv, installed, run, environ, cwd,
                    args, tarball_url, host_os, host_cpu, start, prev, touched,
                    unitVars >>

Rename ==
    /\ pc = "rename"
    /\ LET td == tarball_dir(tarball_url)
       IN  IF isdir(td)
           THEN /\ Record("rename", TRUE, << "os.rename" >>)
                /\ dirs' = (dirs \ { td }) \cup { src_dir }
                /\ Goto("resolve_host")
           ELSE /\ Record("rename", FALSE, << "os.rename" >>)
                /\ dirs' = dirs
                /\ Raise("OSError")
    /\ UNCHANGED << sys_platform, machine, argv, marker, esbuild, installed, run,
                    environ, cwd, args, tarball_url, host_os, host_cpu, start,
                    prev, touched, unitVars >>

ResolveHost ==
    /\ pc = "resolve_host"
    /\ LET os == current_os(sys_platform)
           cpu == current_cpu(machine)
       IN  IF os = "ValueError"
           THEN Raise("UnsupportedPlatform") /\ UNCHANGED << host_os, host_cpu >>
           ELSE IF cpu = "ValueError"
           THEN Raise("UnrecognizedArchitecture") /\ host_os' = os /\ host_cpu' = host_cpu
           ELSE /\ host_os' = os
                /\ host_cpu' = cpu
                /\ Goto(IF os = "win" THEN "win_tools" ELSE "overlay")
    /\ UNCHANGED << sys_platform, machine, argv, dirs, marker, esbuild, installed,
                    run, steps, environ, cwd, args, tarball_url, start, prev,
                    touched, unitVars >>

CheckCall ==
    /\ pc \in CheckCallLabels
    /\ \E rc \in {0, 1} :
          /\ Record("check_call", rc = 0, CheckCallCmd(pc))
          /\ installed' = IF rc = 0 THEN installed \cup { pc } ELSE installed
          /\ IF check_call_raises(rc)
             THEN Raise("CalledProcessError")
             ELSE Goto(Follow(pc))
    /\ UNCHANGED << sys_platform, machine, argv, dirs, marker, esbuild, run,
                    environ, cwd, args, tarball_url, host_os, host_cpu, start,
                    prev, touched, unitVars >>

AddDepotToolsToPath ==
    /\ pc = "overlay"
    /\ environ' = add_depot_tools_to_path(environ)
    /\ cwd' = "src"
    /\ Goto(Follow(pc))
    /\ UNCHANGED << sys_platform, machine, argv, dirs, marker, esbuild, installed,
                    run, steps, args, tarball_url, host_os, host_cpu, start,
                    prev, touched, unitVars >>

SearchPattern ==
    /\ pc = "node_search"
    /\ \E matched \in BOOLEAN :
          /\ Record("search_pattern", matched, << "DEPS", "chromium-nodejs/([0-9.]*)" >>)
          /\ IF matched THEN Goto(Follow(pc)) ELSE Raise("ValueError")
    /\ UNCHANGED << sys_platform, machine, argv, dirs, marker, esbuild, installed,
                    run, environ, cwd, args, tarball_url, host_os, host_cpu,
                    start, prev, touched, unitVars >>

Fetch(l) ==
    LET c == BlobCall(l)
    IN  \E rc \in {0, 1} :
          /\ Record("blob", rc = 0,
                    download_from_google_storage(c.bucket, c.sha_file, c.sha1,
                                                 c.extract, c.output))
          /\ installed' = IF rc = 0 THEN installed \cup { l } ELSE installed
          /\ IF check_call_raises(rc)
             THEN Raise("CalledProcessError")
             ELSE Goto(Follow(l))

DownloadFromGoogleStorage ==
    /\ pc \in BlobLabels \ { "node_mac_sha" }
    /\ Fetch(pc)
    /\ UNCHANGED << sys_platform, machine, argv, dirs, marker, esbuild, run,
                    environ, cwd, args, tarball_url, host_os, host_cpu, start,
                    prev, touched, unitVars >>

\* download_nodejs, mac branch: the f-string reads host_cpu before the call.
DownloadNodejsMac ==
    /\ pc = "node_mac_sha"
    /\ IF NameResolves("host_cpu")
       THEN Fetch(pc)
       ELSE Raise("NameError") /\ UNCHANGED << steps, installed >>
    /\ UNCHANGED << sys_platform, machine, argv, dirs, marker, esbuild, run,
                    environ, cwd, args, tarball_url, host_os, host_cpu, start,
                    prev, touched, unitVars >>

ReadVarFromDeps ==
    /\ pc \in PinLabels
    /\ \E rc \in {0, 1} :
          /\ Record("pin", rc = 0, PinCall(pc))
          /\ IF read_var_from_deps_raises(rc)
             THEN Raise("ValueError")
             ELSE Goto(Follow(pc))
    /\ UNCHANGED << sys_platform, machine, argv, dirs, marker, esbuild, installed,
                    run, environ, cwd, args, tarball_url, host_os, host_cpu,
                    start, prev, touched, unitVars >>

\* download_gcs_dep: ast.literal_eval of the pin, then objects[0][...].
LiteralEval ==
    /\ pc \in EvalLabels
    /\ \E wellformed \in BOOLEAN :
          /\ Record("literal_eval", wellformed, << "ast.literal_eval" >>)
          /\ IF wellformed THEN Goto(Follow(pc)) ELSE Raise("ValueError")
    /\ UNCHANGED << sys_platform, machine, argv, dirs, marker, esbuild, installed,
                    run, environ, cwd, args, tarball_url, host_os, host_cpu,
                    start, prev, touched, unitVars >>

Cipd ==
    /\ pc \in CipdLabels
    /\ \E rc \in {0, 1} :
          /\ Record("cipd", rc = 0, << cipd_bin(sys_platform), "ensure" >> \o CipdCall(pc))
          /\ installed' = IF rc = 0 THEN installed \cup { pc } ELSE installed
          /\ IF cipd_raises(rc)
             THEN Raise("ValueError")
             ELSE Goto(Follow(pc))
    /\ UNCHANGED << sys_platform, machine, argv, dirs, marker, esbuild, run,
                    environ, cwd, args, tarball_url, host_os, host_cpu, start,
                    prev, touched, unitVars >>

-----------------------------------------------------------------------------
(* Between invocations *)

Facts == [ src |-> isdir(src_dir), marker |-> marker, esbuild |-> esbuild,
           dirs |-> dirs ]

\* The user edits the extracted source tree between two invocations.
EditSourceTree ==
    /\ pc = "done" /\ exit_status = 0 /\ run < MaxRuns /\ ~ touched
    /\ \E m \in BOOLEAN, e \in BOOLEAN :
          /\ << m, e >> # << marker, esbuild >>
          /\ marker' = m
          /\ esbuild' = e
    /\ touched' = TRUE
    /\ UNCHANGED << sys_platform, machine, argv, dirs, installed, pc, run, steps,
                    environ, cwd, exit_status, error, args, tarball_url,
                    host_os, host_cpu, start, prev, unitVars >>

\* The same command line is run again in a fresh process.
Rerun ==
    /\ pc = "done" /\ exit_status = 0 /\ run < MaxRuns
    /\ run' = run + 1
    /\ prev' = [ steps |-> steps, start |-> start ]
    /\ start' = Facts
    /\ pc' = "parse"
    /\ steps' = << >>
    /\ environ' = EmptyEnv
    /\ cwd' = "."
    /\ exit_status' = -1
    /\ error' = ""
    /\ args' = [ target_cpu |-> None, target_os |-> None ]
    /\ tarball_url' = << >>
    /\ host_os' = None
    /\ host_cpu' = None
    /\ UNCHANGED << sys_platform, machine, argv, dirs, marker, esbuild, installed,
                    touched, unitVars >>

-----------------------------------------------------------------------------
(* Specification of the orchestrator *)

NoCall == [ platform |-> << >>, bucket |-> "", sha_file |-> None, sha1 |-> None,
            extract |-> FALSE, output |-> None ]

NoResult == [ os |-> None, called |-> FALSE, cmd |-> << >> ]

Init ==
    /\ sys_platform \in HostPlatforms
    /\ machine \in HostMachines
    /\ argv \in Argvs
    /\ dirs \in SUBSET DirNames
    /\ marker \in (IF src_dir \in dirs THEN BOOLEAN ELSE { FALSE })
    /\ esbuild \in (IF src_dir \in dirs THEN BOOLEAN ELSE { FALSE })
    /\ installed = {}
    /\ pc = "parse"
    /\ run = 1
    /\ steps = << >>
    /\ environ = EmptyEnv
    /\ cwd = "."
    /\ exit_status = -1
    /\ error = ""
    /\ args = [ target_cpu |-> None, target_os |-> None ]
    /\ tarball_url = << >>
    /\ host_os = None
    /\ host_cpu = None
    /\ start = Facts
    /\ prev = [ steps |-> << >>, start |-> Facts ]
    /\ touched = FALSE
    /\ u_in = NoCall
    /\ u_out = NoResult

Next ==
    \/ ParseArgs
    \/ CheckArgs
    \/ DestinationCheck
    \/ DownloadAndExtract
    \/ Rename
    \/ ResolveHost
    \/ CheckCall
    \/ AddDepotToolsToPath
    \/ SearchPattern
    \/ DownloadFromGoogleStorage
    \/ DownloadNodejsMac
    \/ ReadVarFromDeps
    \/ LiteralEval
    \/ Cipd
    \/ EditSourceTree
    \/ Rerun

Spec == Init /\ [][Next]_vars

-----------------------------------------------------------------------------
(* Direct calls of the helpers, with arguments no caller in main() passes *)

S_linux2   == << "l", "i", "n", "u", "x", "2" >>
S_Linux    == << "L", "i", "n", "u", "x" >>
S_darwin20 == << "d", "a", "r", "w", "i", "n", "2", "0" >>
S_freebsd  == << "f", "r", "e", "e", "b", "s", "d" >>
S_aix      == << "a", "i", "x" >>
S_wi       == << "w", "i" >>

PlatformIds ==
    { S_linux, S_linux2, S_win32, S_darwin, S_cygwin, S_Linux, S_darwin20,
      S_freebsd, S_aix, S_wi, << >> }

UnitCalls ==
    [ platform : PlatformIds,
      bucket : { "chromium-nodejs" },
      sha_file : { None, "", "f.sha1" },
      sha1 : { None, "", "abc" },
      extract : BOOLEAN,
      output : { None, "out" } ]

CallCurrentOs ==
    /\ u_out.os = None
    /\ u_out' = [ u_out EXCEPT !.os = current_os(u_in.platform) ]
    /\ UNCHANGED << mainVars, u_in >>

\* The function builds the command line and runs the client, whatever it got.
CallDownloadFromGoogleStorage ==
    /\ ~ u_out.called
    /\ u_out' = [ u_out EXCEPT
                    !.called = TRUE,
                    !.cmd = download_from_google_storage(
                                u_in.bucket, u_in.sha_file, u_in.sha1,
                                u_in.extract, u_in.output) ]
    /\ UNCHANGED << mainVars, u_in >>

UnitInit ==
    /\ sys_platform = S_linux
    /\ machine = S_AMD64
    /\ argv = [ revision |-> S_rev, tarball_url |-> << >>,
                target_cpu |-> None, target_os |-> None ]
    /\ dirs = { src_dir }
    /\ marker = FALSE
    /\ esbuild = FALSE
    /\ installed = {}
    /\ pc = "parse"
    /\ run = 1
    /\ steps = << >>
    /\ environ = EmptyEnv
    /\ cwd = "."
    /\ exit_status = -1
    /\ error = ""
    /\ args = [ target_cpu |-> None, target_os |-> None ]
    /\ tarball_url = << >>
    /\ host_os = None
    /\ host_cpu = None
    /\ start = Facts
    /\ prev = [ steps |-> << >>, start |-> Facts ]
    /\ touched = FALSE
    /\ u_in \in UnitCalls
    /\ u_out = NoResult

UnitNext ==
    \/ CallCurrentOs
    \/ CallDownloadFromGoogleStorage

SpecUnit == UnitInit /\ [][UnitNext]_vars

-----------------------------------------------------------------------------
(* Properties *)

StepIdx == DOMAIN steps

\* The stage of section 4.6 an operation belongs to.
StageOf(what) ==
    CASE what \in {"archive", "rename"} -> 1
      [] what = "win_tools" -> 2
      [] what \in {"vs_toolchain", "clang", "rust"} -> 3
      [] what \in {"dsymutil", "rc", "sysroot_host", "sysroot_target"} -> 5
      [] OTHER -> 4

\* C1: operations run in stage order, a failed operation is the last one the
\* invocation starts, and an invocation in which anything failed ends with a
\* non-zero status instead of reaching Ready (status 0).
C1_FailFast ==
    /\ \A i \in StepIdx :
          ~ steps[i].ok => i = Len(steps) /\ pc = "done" /\ exit_status = 1
    /\ \A i, j \in StepIdx :
          i < j => StageOf(steps[i].what) <= StageOf(steps[j].what)
    /\ error # "" => pc = "done" /\ exit_status = 1
    /\ exit_status = 0 => pc = "done" /\ \A i \in StepIdx : steps[i].ok

C1_Witness ==
    /\ pc = "done" /\ exit_status = 1
    /\ Len(steps) > 3
    /\ steps[Len(steps)].op = "cipd"
    /\ ~ steps[Len(steps)].ok

Calls(seq) == [ i \in DOMAIN seq |-> << seq[i].op, seq[i].what, seq[i].cmd >> ]

NotSourceStep(s) == s.op \notin {"archive", "rename"}

\* C2 as stated: on a re-run of a fully provisioned destination only pin reads
\* and cipd ensure calls are started.
C2_OnlyCipdOnRerun ==
    (run >= 2 /\ ~ touched) =>
        \A i \in StepIdx : steps[i].op \in {"cipd", "pin"}

\* C2 amended: on a re-run of a fully provisioned, unedited destination the
\* archive fetch and the rename are never started, and a successful re-run
\* starts every other operation of the previous run again, in the same order
\* and with the same command lines.
C2_RerunSkipsOnlySource ==
    (run >= 2 /\ ~ touched) =>
        /\ \A i \in StepIdx : NotSourceStep(steps[i])
        /\ (pc = "done" /\ exit_status = 0) =>
              Calls(steps) = Calls(SelectSeq(prev.steps, NotSourceStep))

C2_Witness ==
    /\ run = 2 /\ ~ touched /\ pc = "done" /\ exit_status = 0
    /\ \E i \in DOMAIN prev.steps : prev.steps[i].op = "archive"
    /\ \E i \in StepIdx : steps[i].op = "blob"
    /\ \E i \in StepIdx : steps[i].what = "sysroot_host"
    /\ \E i \in StepIdx : steps[i].what = "clang"

\* The overlay of section 4.7 is in force in an environment.
OverlaySet(env) ==
    /\ env.DEPOT_TOOLS_UPDATE = "0"
    /\ env.CHROMIUM_BUILDTOOLS_PATH # ""
    /\ Len(env.PATH) >= 2
    /\ env.PATH[1] = "src/third_party/ninja"
    /\ env.PATH[2] = "vendor/depot_tools"
    /\ env.DEPOT_TOOLS_WIN_TOOLCHAIN = "1"
    /\ env.DEPOT_TOOLS_WIN_TOOLCHAIN_BASE_URL # ""
    /\ env.GYP_MSVS_HASH_27370823e7 # ""
    /\ env.GYP_MSVS_HASH_7393122652 # ""

Spawned(s) == s.op \in {"archive", "check_call", "blob", "pin", "cipd"}

\* C3 as stated: every fetch and every subprocess starts with the overlay set.
C3_OverlayBeforeEverything ==
    \A i \in StepIdx : Spawned(steps[i]) => OverlaySet(steps[i].env)

\* C3 amended: the archive fetch, the rename and the win_tools bootstrap start
\* with the overlay not yet set; every other operation starts with the overlay
\* set, and the environment stays as the overlay left it for the rest of the
\* invocation (it is applied once, never changed again).
C3_OverlayBeforeToolchains ==
    /\ \A i \in StepIdx :
          IF steps[i].what \in {"archive", "rename", "win_tools"}
          THEN steps[i].env = EmptyEnv
          ELSE OverlaySet(steps[i].env) /\ steps[i].env = environ
    /\ Cardinality({ k \in DOMAIN environ.PATH :
                       environ.PATH[k] = "vendor/depot_tools" }) <= 1

C3_Witness ==
    /\ \E i \in StepIdx : steps[i].what = "archive"
    /\ \E i \in StepIdx : steps[i].what = "win_tools"
    /\ \E i \in StepIdx : steps[i].what = "vs_toolchain"
    /\ \E i \in StepIdx : steps[i].what = "cipd_gn"

Supplied(x) == x # None

\* C4: the retrieval client is run only when exactly one of sha1 and sha_file
\* was supplied; a call with both or with neither never reaches it.
C4_ExactlyOneIdentity ==
    u_out.called => (Supplied(u_in.sha1) # Supplied(u_in.sha_file))

IsSysroot(s) ==
    s.op = "check_call"
    /\ s.cmd[1] = "build/linux/sysroot_scripts/install-sysroot.py"

SysrootArchs ==
    LET ss == SelectSeq(steps, IsSysroot)
    IN  [ i \in DOMAIN ss |-> ss[i].cmd[3] ]

WinMacSpecific(s) ==
    \/ s.what \in {"win_tools", "vs_toolchain", "dsymutil", "rc", "node_mac_sha",
                   "node_win_sha", "gcs_mac_pin", "gcs_mac_eval", "gcs_mac_blob",
                   "gcs_mac_arm64_pin", "gcs_mac_arm64_eval",
                   "gcs_mac_arm64_blob", "gcs_win_pin", "gcs_win_eval",
                   "gcs_win_blob"}
    \/ s.op = "cipd" /\ s.cmd[3] \in {"buildtools/mac", "buildtools/win"}
    \/ s.op = "cipd" /\ s.cmd[1] = "cipd.bat"

\* C5: a successful run on a linux host for a linux target installs the host
\* CPU's sysroot and then, only when the target CPU differs, the target CPU's,
\* and starts no Windows- or Mac-specific operation.
C5_LinuxSysroots ==
    (host_os = "linux" /\ args.target_os = "linux"
     /\ pc = "done" /\ exit_status = 0) =>
        /\ SysrootArchs = IF host_cpu # args.target_cpu
                          THEN << host_cpu, args.target_cpu >>
                          ELSE << host_cpu >>
        /\ \A i \in StepIdx : ~ WinMacSpecific(steps[i])

C5_Witness ==
    /\ host_os = "linux" /\ args.target_os = "linux"
    /\ pc = "done" /\ exit_status = 0
    /\ host_cpu = "x64" /\ args.target_cpu = "arm"
    /\ SysrootArchs = << "x64", "arm" >>

IsFetch(s) == s.op \in {"archive", "blob", "cipd"}

\* The fetch steps of a run: the fetcher kind and its command line.
FetchSet(seq) ==
    { << seq[i].op, seq[i].cmd >> : i \in { k \in DOMAIN seq : IsFetch(seq[k]) } }

\* C6 as stated: two successful runs with the same host and target tuples
\* start the same set of fetch steps.
C6_FetchesDependOnTuplesOnly ==
    (run >= 2 /\ pc = "done" /\ exit_status = 0) =>
        FetchSet(steps) = FetchSet(prev.steps)

SameTreeFacts ==
    /\ start.src = prev.start.src
    /\ start.marker = prev.start.marker
    /\ start.esbuild = prev.start.esbuild

\* C6 amended: two successful runs with the same host and target tuples that
\* also found the same three filesystem facts (source directory present, node
\* marker file present, esbuild directory present) start the same set of
\* fetch steps.
C6_FetchesDependOnTuplesAndTree ==
    (run >= 2 /\ pc = "done" /\ exit_status = 0 /\ SameTreeFacts) =>
        FetchSet(steps) = FetchSet(prev.steps)

C6_Witness ==
    /\ run = 2 /\ pc = "done" /\ exit_status = 0 /\ SameTreeFacts
    /\ start.marker /\ start.esbuild
    /\ \E i \in StepIdx : steps[i].what = "cipd_esbuild"
    /\ \E i \in StepIdx : steps[i].what = "node_linux_sha"

\* The token each platform identifier stands for; anything else is unsupported.
ExpectedOs(p) ==
    IF p \in { S_linux, S_linux2 } THEN "linux"
    ELSE IF p = S_win32 THEN "win"
    ELSE IF p = S_darwin THEN "mac"
    ELSE "ValueError"

\* C7: current_os returns exactly one of linux, mac, win for a recognized
\* platform identifier and fails for every other string; no unrecognized
\* string is mapped to a token.
C7_PlatformResolver ==
    u_out.os # None =>
        /\ u_out.os \in {"linux", "mac", "win", "ValueError"}
        /\ u_out.os = ExpectedOs(u_in.platform)

C7_Witness ==
    /\ u_in.platform = S_cygwin
    /\ u_out.os = "ValueError"

\* C8: when the source directory exists at the start of an invocation, the
\* archive fetch and the rename are never started; the archive fetch starts
\* only while the source directory does not exist.
C8_NoFetchOverExistingSource ==
    /\ start.src =>
          /\ \A i \in StepIdx : steps[i].op \notin {"archive", "rename"}
          /\ pc \notin {"src_check", "archive", "rename"}
    /\ pc = "archive" => ~ isdir(src_dir)
    /\ \A i \in StepIdx : steps[i].op = "archive" => ~ start.src

C8_Witness ==
    /\ run = 1 /\ start.src /\ pc = "done" /\ exit_status = 0
    /\ \E i \in StepIdx : steps[i].what = "clang"

EndsWith(s, suffix) ==
    Len(s) >= Len(suffix)
    /\ SubSeq(s, Len(s) - Len(suffix) + 1, Len(s)) = suffix

\* The tarball's basename without its .tar.xz suffix.
ImpliedDir(url) ==
    LET base == Basename(url)
    IN  IF EndsWith(base, S_tar_xz)
        THEN SubSeq(base, 1, Len(base) - Len(S_tar_xz))
        ELSE base

\* C9: when the source directory is missing and the directory the tarball
\* name implies exists, the invocation ends with status 1 having started no
\* operation, not applied the overlay and not changed the filesystem.
C9_DestinationConflict ==
    (/\ argv.revision # << >> \/ argv.tarball_url # << >>
     /\ ~ start.src
     /\ ImpliedDir(TarballUrl(argv)) \in start.dirs) =>
        /\ steps = << >>
        /\ environ = EmptyEnv
        /\ dirs = start.dirs
        /\ exit_status # 0
        /\ pc = "done" => exit_status = 1
        /\ pc \in {"parse", "check_args", "src_check", "done"}

C9_Witness ==
    /\ error = "DestinationConflict"
    /\ pc = "done" /\ exit_status = 1
    /\ argv.revision = << >>
    /\ ImpliedDir(TarballUrl(argv)) \in dirs

NodeBlobs ==
    LET IsNodeBlob(s) == s.op = "blob" /\ s.cmd[4] = "chromium-nodejs/node_version"
        ss == SelectSeq(steps, IsNodeBlob)
    IN  [ i \in DOMAIN ss |-> ss[i].cmd[6] ]

\* C10: on a mac host with the node marker file present, once the linux node
\* blob is fetched and no external tool fails, the mac node blob for the host
\* CPU is fetched next and the run goes on to the utility-binary steps.
C10_MacNodeStage ==
    (/\ host_os = "mac" /\ marker /\ pc = "done"
     /\ \A i \in StepIdx : steps[i].ok
     /\ \E i \in StepIdx : steps[i].what = "node_linux_sha") =>
        /\ NodeBlobs = << "third_party/node/linux/node-linux-x64.tar.gz.sha1",
                          NodeMacSha(host_cpu) >>
        /\ \E i \in StepIdx : steps[i].what = "pin_ninja"

====
